---- MODULE Spec2Model ----
(***************************************************************************)
(* The ledger reconciliation engine of github_stats:                       *)
(*   CacheManager.cache_builder / _flush_cache / force_close_file /        *)
(*   add_archive (cache/manager.py), process_loc_for_repo                  *)
(*   (api/repo_processing.py) and GitHubClient.execute_query               *)
(*   (api/client.py).                                                      *)
(*                                                                         *)
(* A ledger line is a record; a file is [exists, lines].  A run of         *)
(* cache_builder is cut at its remote requests: StartRun (load, rebuild,   *)
(* header/record split), LoopStep (one iteration of the per-repository     *)
(* loop up to its first request, or the final save and the totals),        *)
(* WalkStep (one 'recursive_loc' request of process_loc_for_repo and       *)
(* everything that follows it up to the next request).                     *)
(* SpecLedger is one run on any ledger file it may find, SpecSave one save  *)
(* cut at its writes, SpecWalk one walk, SpecArchive one add_archive call.  *)
(***************************************************************************)
EXTENDS Integers, Sequences, FiniteSets, TLC

\* ---------------------------------------------------------------- bounds
NumRepos   == 2      \* number of distinct repository names
HeaderSize == 1      \* comment_size handed to cache_builder
MaxTotal   == 2      \* live commit totals range over 1..MaxTotal
MaxPages   == 2      \* pages one walk may request
MaxPageLen == 2      \* commits on one history page
MaxLines   == 2      \* additions of a commit range over 1..MaxLines
MaxRuns    == 2      \* runs of cache_builder in one behaviour

\* ------------------------------------------------------- program constants
loc_add0 == 0        \* cache_builder's default loc_add
loc_del0 == 0        \* cache_builder's default loc_del

VARIABLES
  files,        \* the cache directory: account name -> [exists, lines]
  userName,     \* CacheManager.user_name
  cfgUser,      \* config.user_name
  pc,           \* "idle", "loop", "walk", "done", "raised"; inside a save:
                \* "save", "opened", "header", "closed"
  edges,        \* the repository list handed to cache_builder
  data,         \* cache_builder's data (records once the header is cut off)
  cacheComment, \* cache_builder's cache_comment
  cached,       \* cache_builder's cached
  index,        \* the loop index, 1-based
  pageNo,       \* pages already received by the running walk (0: cursor None)
  acc,          \* <<addition_total, deletion_total, my_commits>> of the walk
  result,       \* what cache_builder returned
  err,          \* the exception that reached cache_builder's caller
  runs,         \* runs started so far
  file0,        \* history: the ledger file when the run started
  data0,        \* history: data when the per-repository loop started
  rebuilt,      \* history: this run called _flush_cache
  walked,       \* history: positions a 'recursive_loc' request was issued for
  walkRes,      \* history: position -> what the walk returned in this run
  seen,         \* history: the 200 bodies the current or last walk received
  repeat,       \* history: an unforced run on the list of the previous run, which completed
  prevResult,   \* history: what the previous run returned
  failedAt,     \* history: the position at which the run before this unforced run on
                \* the same list left through force_close_file; 0: no such run
  archive,      \* cache/repository_archive.txt: [exists, lines of tokens]
  archOut       \* how the call of add_archive ended

vars == <<files, userName, cfgUser, pc, edges, data, cacheComment,
          cached, index, pageNo, acc, result, err, runs, file0, data0, rebuilt,
          walked, walkRes, seen, repeat, prevResult, failedAt, archive, archOut>>

\* ------------------------------------------------------------ identities
Users == {"u1", "u2"}
Names == 1..NumRepos

\* hashlib.sha256(name).hexdigest(): injective on the names of the model
Sha256(n) == 1000 + 37 * n

\* ------------------------------------------------------------ ledger lines
CommentLine(t) ==
  [kind |-> "cmt", text |-> t, hash |-> 0, total |-> 0, mine |-> 0, add |-> 0, del |-> 0]

\* 'This line is a comment block. Write whatever you want here.\n'
DefaultComment == CommentLine(0)

DefaultHeader(n) == [i \in 1..n |-> DefaultComment]

\* a header the user wrote: every line different
UserHeader(n) == [i \in 1..n |-> CommentLine(i)]

RecordLine(h, t, m, a, d) ==
  [kind |-> "rec", text |-> 0, hash |-> h, total |-> t, mine |-> m, add |-> a, del |-> d]

\* mutant: the sentinel carries a count
Sentinel_Counted(h) == RecordLine(h, 0, 0, 1, 0)

\* f"{repo_hash} 0 0 0 0\n"
Sentinel(h) == RecordLine(h, 0, 0, 0, 0)

\* mutant: the counts are written in the order the walk returns them
FormatRecord_AsReturned(h, current, loc) == RecordLine(h, current, loc[1], loc[2], loc[3])

\* f"{repo_hash} {current_commit_count} {loc[2]} {loc[0]} {loc[1]}\n"
\* loc is what process_loc_for_repo returns: <<additions, deletions, my_commits>>
FormatRecord(h, current, loc) == RecordLine(h, current, loc[3], loc[1], loc[2])

Absent == [exists |-> FALSE, lines |-> <<>>]
FileOf(ls) == [exists |-> TRUE, lines |-> ls]

\* python slices data[:n] and data[n:]
Take(s, n) == SubSeq(s, 1, IF n < Len(s) THEN n ELSE Len(s))
Drop(s, n) == SubSeq(s, n + 1, Len(s))

\* ------------------------------------------------------------ remote data
\* an edge of the repository listing: nameWithOwner, whether defaultBranchRef
\* is present, and defaultBranchRef.target.history.totalCount
Edge(n, b, t) == [name |-> n, branch |-> b, total |-> t]

\* a default branch holds at least one commit
EdgeAttrs == {<<FALSE, 0>>} \cup {<<TRUE, t>> : t \in 1..MaxTotal}

\* repository lists: no name twice
NameLists ==
  {s \in UNION {[1..k -> Names] : k \in 0..NumRepos} :
     \A i, j \in DOMAIN s : i # j => s[i] # s[j]}

EdgeLists ==
  UNION {{[i \in DOMAIN s |-> Edge(s[i], at[i][1], at[i][2])] :
            at \in [DOMAIN s -> EdgeAttrs]} : s \in NameLists}

\* config.owner_id, resolved once by main before the walk
OwnerId == "me"

\* a commit node of a history page; author "none": the author entry is null
Commits ==
  [author : {"me", "other"}, additions : 1..MaxLines, deletions : 0..1]
  \cup {[author |-> "none", additions |-> 1, deletions |-> 0]}

\* the commits the runs of the ledger draw their pages from: one size
RunCommits ==
  {c \in Commits : c.author = "none" \/ (c.additions = MaxLines /\ c.deletions = 1)}

PagesOver(cs, n) == UNION {[1..k -> cs] : k \in 0..n}

\* the parsed JSON of a 200 reply to REPO_LOC_QUERY
Body(b, es, more) == [branch |-> b, edges |-> es, hasNextPage |-> more]
NoBody == Body(FALSE, <<>>, FALSE)

\* what the transport does with one request: requests.post raises (net), or
\* answers with a status code and, for 200, a body
Reply(n, s, b) == [net |-> n, status |-> s, body |-> b]

RepliesOver(pages) ==
  {Reply(TRUE, 0, NoBody), Reply(FALSE, 403, NoBody), Reply(FALSE, 500, NoBody),
   Reply(FALSE, 200, NoBody)}
  \cup {Reply(FALSE, 200, Body(TRUE, es, more)) : es \in pages, more \in BOOLEAN}

\* the replies a walk of the walker's own specification may get
WalkReplies == RepliesOver(PagesOver(Commits, MaxPageLen))

\* the replies a walk inside a run of the ledger may get
RunReplies == RepliesOver(PagesOver(RunCommits, 1))

\* GitHubClient.execute_query: the exception it leaves with, or the JSON
ExecuteQuery(reply) ==
  IF reply.net THEN [exc |-> "RequestException", json |-> NoBody]
  ELSE IF reply.status = 200 THEN [exc |-> "none", json |-> reply.body]
  ELSE [exc |-> "APIError", json |-> NoBody]

\* ------------------------------------------------------------ ledger store
\* mutant: a missing file is created empty
LoadFile_NoHeader(f, cs) == IF f.exists THEN f ELSE FileOf(<<>>)

\* cache_builder's load: a missing file is created with the placeholder header
LoadFile(f, cs) == IF f.exists THEN f ELSE FileOf(DefaultHeader(cs))

\* mutant: the record count is not compared
NeedsRebuild_ForceOnly(d, e, cs, force) == force

\* len(data) - comment_size != len(edges) or force_cache
NeedsRebuild(d, e, cs, force) == Len(d) - cs # Len(e) \/ force

\* CacheManager._flush_cache
FlushCache(f, e, cs) ==
  LET hdr == IF f.exists
             THEN (IF cs > 0 THEN Take(f.lines, cs) ELSE <<>>)
             ELSE DefaultHeader(cs)
  IN  FileOf(hdr \o [i \in 1..Len(e) |-> Sentinel(Sha256(e[i].name))])

\* mutant: the final save forgets the header
SaveFile_RecordsOnly(comment, d) == FileOf(d)

\* the file written by f.writelines(cache_comment); f.writelines(data)
SaveFile(comment, d) == FileOf(comment \o d)

\* mutant: the recovery save writes the header and forgets the records
ForceCloseFile_HeaderOnly(d, comment) == FileOf(comment)

\* CacheManager.force_close_file: what it writes
ForceCloseFile(d, comment) == FileOf(comment \o d)

\* CacheManager.force_close_file: the file it writes to
ForceCloseTarget == cfgUser

\* mutant: cached is never cleared
CachedFlag_Always(rebuild) == TRUE

\* cached is cleared only where the ledger is rebuilt
CachedFlag(rebuild) == ~rebuild

\* repo_hash of a stored line: a comment line's first token is no digest
StoredHash(line) == IF line.kind = "rec" THEN line.hash ELSE -1

\* mutant: the stored hash is not compared
HashesMatch_Always(line, h) == TRUE

\* repo_hash == repo_hash_calculated
HashesMatch(line, h) == StoredHash(line) = h

\* mutant: every record with a matching hash is walked
IsStale_Always(line, edge) == TRUE

\* int(commit_count) != current_commit_count
IsStale(line, edge) == line.total # edge.total

\* the totals loop: loc_add += int(loc[3]); loc_del += int(loc[4])
RECURSIVE SumField(_, _, _)
SumField(d, i, fld) ==
  IF i > Len(d) THEN 0
  ELSE (IF fld = "add" THEN d[i].add ELSE d[i].del) + SumField(d, i + 1, fld)

\* mutant: the deletions are summed from the additions column
Totals_AddTwice(d, isCached) ==
  LET a == loc_add0 + SumField(d, 1, "add")
      r == loc_del0 + SumField(d, 1, "add")
  IN  <<a, r, a - r, isCached>>

Totals(d, isCached) ==
  LET a == loc_add0 + SumField(d, 1, "add")
      r == loc_del0 + SumField(d, 1, "del")
  IN  <<a, r, a - r, isCached>>

NoResult == <<0, 0, 0, FALSE>>

\* ------------------------------------------------------------ history walker
\* mutant: the author is not compared
IsMine_AnyAuthor(c) == TRUE

\* node['node']['author']['user'] == config.owner_id
IsMine(c) == c.author = OwnerId

\* the for loop over history['edges']: a null author entry raises TypeError
RECURSIVE CountPage(_, _, _)
CountPage(es, i, a) ==
  IF i > Len(es) THEN [exc |-> "none", acc |-> a]
  ELSE IF es[i].author = "none" THEN [exc |-> "TypeError", acc |-> a]
  ELSE IF IsMine(es[i])
       THEN CountPage(es, i + 1,
                      <<a[1] + es[i].additions, a[2] + es[i].deletions, a[3] + 1>>)
       ELSE CountPage(es, i + 1, a)

\* mutant: the walk goes on after every page that holds a commit
WalkContinues_NonEmptyOnly(json) == json.edges # <<>>

\* history['edges'] and history['pageInfo']['hasNextPage']
WalkContinues(json) == json.edges # <<>> /\ json.hasNextPage

NoWalk == [done |-> FALSE, loc |-> <<0, 0, 0>>]

\* ------------------------------------------------------------ archive merger
\* a token of a line is a sequence of characters, a line a sequence of tokens
Digits == {"0", "1", "2", "3", "4", "5", "6", "7", "8", "9"}

DigitVal(c) ==
  CASE c = "0" -> 0 [] c = "1" -> 1 [] c = "2" -> 2 [] c = "3" -> 3 [] c = "4" -> 4
    [] c = "5" -> 5 [] c = "6" -> 6 [] c = "7" -> 7 [] c = "8" -> 8 [] c = "9" -> 9

\* str.isdigit(), and what int() accepts of a token without sign
IsDigitStr(t) == t # <<>> /\ \A i \in DOMAIN t : t[i] \in Digits

\* int() of a digit string
RECURSIVE IntOf(_)
IntOf(t) ==
  IF t = <<>> THEN 0
  ELSE 10 * IntOf(SubSeq(t, 1, Len(t) - 1)) + DigitVal(t[Len(t)])

\* token[:-1]
DropLast(t) == SubSeq(t, 1, Len(t) - 1)

\* mutant: the trailer lines are taken for archived lines
ArchiveBody_KeepTrailer(old) == SubSeq(old, 8, Len(old))

\* data[7:len(data) - 3]
ArchiveHeaderLen == 7
ArchiveTrailerLen == 3
ArchiveBody(old) == SubSeq(old, ArchiveHeaderLen + 1, Len(old) - ArchiveTrailerLen)

ArchiveZero == <<0, 0, 0, 0, 0>>
NoCall == [called |-> FALSE, exc |-> "none", value |-> ArchiveZero]
Returned(v) == [called |-> TRUE, exc |-> "none", value |-> v]
Raised(e) == [called |-> TRUE, exc |-> e, value |-> ArchiveZero]

\* the loop over the archived lines: the sums, or the exception that ends it
RECURSIVE ArchiveLoop(_, _, _)
ArchiveLoop(body, i, sums) ==
  IF i > Len(body) THEN [exc |-> "none", sums |-> sums]
  ELSE LET tok == body[i]
       IN  IF Len(tok) < 3 THEN [exc |-> "ValueError", sums |-> sums]
           ELSE IF Len(tok) < 4 THEN [exc |-> "IndexError", sums |-> sums]
           ELSE IF ~IsDigitStr(tok[4]) THEN [exc |-> "ValueError", sums |-> sums]
           ELSE IF Len(tok) < 5 THEN [exc |-> "IndexError", sums |-> sums]
           ELSE IF ~IsDigitStr(tok[5]) THEN [exc |-> "ValueError", sums |-> sums]
           ELSE ArchiveLoop(body, i + 1,
                  << sums[1] + IntOf(tok[4]), sums[2] + IntOf(tok[5]),
                     sums[3] + (IF IsDigitStr(tok[3]) THEN IntOf(tok[3]) ELSE 0) >>)

\* the exceptions add_archive turns into the all-zero result
ArchiveCaught == {"FileNotFoundError", "IndexError"}

\* added_commits += int(old_data[-1].split()[4][:-1]): the exception or "none"
TrailerExc(old) ==
  IF old = <<>> THEN "IndexError"
  ELSE IF Len(old[Len(old)]) < 5 THEN "IndexError"
  ELSE IF ~IsDigitStr(DropLast(old[Len(old)][5])) THEN "ValueError"
  ELSE "none"

\* CacheManager.add_archive
AddArchive(f) ==
  LET old  == f.lines
      body == ArchiveBody(old)
      loop == ArchiveLoop(body, 1, <<0, 0, 0>>)
      exc  == IF ~f.exists THEN "FileNotFoundError"
              ELSE IF loop.exc # "none" THEN loop.exc
              ELSE TrailerExc(old)
  IN  IF exc \in ArchiveCaught THEN Returned(ArchiveZero)
      ELSE IF exc # "none" THEN Raised(exc)
      ELSE Returned(<< loop.sums[1], loop.sums[2], loop.sums[1] - loop.sums[2],
                       loop.sums[3] + IntOf(DropLast(old[Len(old)][5])),
                       Len(body) >>)

\* ------------------------------------------------------------ the run
\* get_loc_statistics builds the manager for config.user_name; the ledger is
\* absent (first run) or holds a header the user wrote and no record yet
InitRun(f) ==
  /\ cfgUser = "u1"
  /\ userName = cfgUser
  /\ files = [u \in Users |-> IF u = userName THEN f ELSE Absent]
  /\ pc = "idle"
  /\ edges = <<>>
  /\ data = <<>>
  /\ cacheComment = <<>>
  /\ cached = TRUE
  /\ index = 1
  /\ pageNo = 0
  /\ acc = <<0, 0, 0>>
  /\ result = NoResult
  /\ err = "none"
  /\ runs = 0
  /\ file0 = Absent
  /\ data0 = <<>>
  /\ rebuilt = FALSE
  /\ walked = {}
  /\ walkRes = <<>>
  /\ seen = <<>>
  /\ repeat = FALSE
  /\ prevResult = NoResult
  /\ failedAt = 0

Init ==
  /\ \E f \in {Absent, FileOf(UserHeader(HeaderSize))} : InitRun(f)
  /\ archive = Absent
  /\ archOut = NoCall

\* cache_builder up to the per-repository loop: load (creating a missing
\* file), the rebuild where the record count or force_cache asks for it, the
\* re-read and the header/record split
\* (names are interchangeable, so the first list of a behaviour takes them in
\* order; the later lists are free)
StartRun(e, force) ==
  /\ pc \in {"idle", "done", "raised"}
  /\ runs < MaxRuns
  /\ runs = 0 => \A i \in DOMAIN e : e[i].name = i
  /\ LET loaded  == LoadFile(files[userName], HeaderSize)
         rebuild == NeedsRebuild(loaded.lines, e, HeaderSize, force)
         f1      == IF rebuild THEN FlushCache(loaded, e, HeaderSize) ELSE loaded
     IN  /\ files' = [files EXCEPT ![userName] = f1]
         /\ cached' = CachedFlag(rebuild)
         /\ cacheComment' = Take(f1.lines, HeaderSize)
         /\ data' = Drop(f1.lines, HeaderSize)
         /\ data0' = Drop(f1.lines, HeaderSize)
         /\ rebuilt' = rebuild
  /\ edges' = e
  /\ index' = 1
  /\ pageNo' = 0
  /\ acc' = <<0, 0, 0>>
  /\ result' = NoResult
  /\ err' = "none"
  /\ runs' = runs + 1
  /\ file0' = files[userName]
  /\ walked' = {}
  /\ walkRes' = [i \in 1..Len(e) |-> NoWalk]
  /\ seen' = <<>>
  /\ repeat' = (pc = "done" /\ e = edges /\ ~force)
  /\ prevResult' = result
  /\ failedAt' = IF pc = "raised" /\ err = "APIError" /\ e = edges /\ ~force
                 THEN index ELSE 0
  /\ pc' = "loop"
  /\ UNCHANGED <<userName, cfgUser, archive, archOut>>

\* the run leaves cache_builder with exception e
Raise(e) ==
  /\ pc' = "raised"
  /\ err' = e

\* one iteration of "for index in range(len(edges))" up to the call of
\* process_loc_for_repo; past the last index, the final save and the totals
LoopStep ==
  /\ pc = "loop"
  /\ IF index > Len(edges)
     THEN /\ files' = [files EXCEPT ![userName] = SaveFile(cacheComment, data)]
          /\ IF \E i \in DOMAIN data : data[i].kind # "rec"
             THEN Raise("ValueError") /\ UNCHANGED result
             ELSE /\ pc' = "done"
                  /\ result' = Totals(data, cached)
                  /\ UNCHANGED err
          /\ seen' = <<>>
          /\ UNCHANGED <<data, index, pageNo, acc>>
     ELSE IF index > Len(data)
     THEN /\ Raise("IndexError")
          /\ seen' = <<>>
          /\ UNCHANGED <<files, data, index, pageNo, acc, result>>
     ELSE LET line == data[index]
              edge == edges[index]
              h    == Sha256(edge.name)
          IN  /\ seen' = <<>>
              /\ IF ~HashesMatch(line, h)
                 THEN /\ index' = index + 1
                      /\ UNCHANGED <<files, pc, data, pageNo, acc, result, err>>
                 ELSE IF ~edge.branch
                 THEN /\ data' = [data EXCEPT ![index] = Sentinel(h)]
                      /\ index' = index + 1
                      /\ UNCHANGED <<files, pc, pageNo, acc, result, err>>
                 ELSE IF ~IsStale(line, edge)
                 THEN /\ index' = index + 1
                      /\ UNCHANGED <<files, pc, data, pageNo, acc, result, err>>
                 ELSE /\ pc' = "walk"
                      /\ pageNo' = 0
                      /\ acc' = <<0, 0, 0>>
                      /\ UNCHANGED <<files, data, index, result, err>>
  /\ UNCHANGED <<userName, cfgUser, edges, cacheComment, cached, runs, file0,
                 data0, rebuilt, walked, walkRes, repeat, prevResult, failedAt,
                 archive, archOut>>

\* one 'recursive_loc' request of process_loc_for_repo and what follows it:
\* the failure paths, the count of the page, the next page or the return into
\* cache_builder (the new record, or the sentinel of "except TypeError")
WalkStep(reply) ==
  /\ pc = "walk"
  /\ walked' = walked \cup {index}
  /\ LET out == ExecuteQuery(reply)
         h   == Sha256(edges[index].name)
     IN  IF out.exc = "RequestException"
         THEN /\ Raise("RequestException")
              /\ UNCHANGED <<files, data, index, pageNo, acc, walkRes, seen>>
         ELSE IF out.exc = "APIError"
         THEN /\ files' = [files EXCEPT
                             ![ForceCloseTarget] = ForceCloseFile(data, cacheComment)]
              /\ Raise("APIError")
              /\ UNCHANGED <<data, index, pageNo, acc, walkRes, seen>>
         ELSE IF ~out.json.branch
         THEN /\ data' = [data EXCEPT
                            ![index] = FormatRecord(h, edges[index].total, acc)]
              /\ walkRes' = [walkRes EXCEPT ![index] = [done |-> TRUE, loc |-> acc]]
              /\ seen' = Append(seen, out.json)
              /\ index' = index + 1
              /\ pageNo' = 0
              /\ acc' = <<0, 0, 0>>
              /\ pc' = "loop"
              /\ UNCHANGED <<files, err>>
         ELSE LET r == CountPage(out.json.edges, 1, acc)
              IN  /\ seen' = Append(seen, out.json)
                  /\ IF r.exc = "TypeError"
                     THEN /\ data' = [data EXCEPT ![index] = Sentinel(h)]
                          /\ index' = index + 1
                          /\ pageNo' = 0
                          /\ acc' = <<0, 0, 0>>
                          /\ pc' = "loop"
                          /\ UNCHANGED <<files, err, walkRes>>
                     ELSE IF WalkContinues(out.json)
                     THEN /\ pageNo + 1 < MaxPages
                          /\ pageNo' = pageNo + 1
                          /\ acc' = r.acc
                          /\ UNCHANGED <<files, pc, data, index, err, walkRes>>
                     ELSE /\ data' = [data EXCEPT
                                        ![index] = FormatRecord(h, edges[index].total, r.acc)]
                          /\ walkRes' = [walkRes EXCEPT
                                           ![index] = [done |-> TRUE, loc |-> r.acc]]
                          /\ index' = index + 1
                          /\ pageNo' = 0
                          /\ acc' = <<0, 0, 0>>
                          /\ pc' = "loop"
                          /\ UNCHANGED <<files, err>>
  /\ UNCHANGED <<userName, cfgUser, edges, cacheComment, cached, result, runs,
                 file0, data0, rebuilt, repeat, prevResult, failedAt, archive,
                 archOut>>

Next ==
  \/ \E e \in EdgeLists, force \in BOOLEAN : StartRun(e, force)
  \/ LoopStep
  \/ \E reply \in RunReplies : WalkStep(reply)

Spec == Init /\ [][Next]_vars

\* ------------------------------------------------ the walker on its own
\* the first run on a missing ledger has rebuilt it for one repository and
\* stands before the loop; the pages come from the larger set WalkReplies
InitWalk ==
  /\ cfgUser = "u1"
  /\ userName = cfgUser
  /\ \E t \in 1..MaxTotal :
       /\ edges = <<Edge(1, TRUE, t)>>
       /\ files = [u \in Users |->
                     IF u = userName
                     THEN FlushCache(LoadFile(Absent, HeaderSize), edges, HeaderSize)
                     ELSE Absent]
  /\ pc = "loop"
  /\ cacheComment = Take(files[userName].lines, HeaderSize)
  /\ data = Drop(files[userName].lines, HeaderSize)
  /\ data0 = data
  /\ cached = CachedFlag(TRUE)
  /\ rebuilt = TRUE
  /\ index = 1
  /\ pageNo = 0
  /\ acc = <<0, 0, 0>>
  /\ result = NoResult
  /\ err = "none"
  /\ runs = 1
  /\ file0 = Absent
  /\ walked = {}
  /\ walkRes = <<NoWalk>>
  /\ seen = <<>>
  /\ repeat = FALSE
  /\ prevResult = NoResult
  /\ failedAt = 0
  /\ archive = Absent
  /\ archOut = NoCall

NextWalk ==
  \/ LoopStep
  \/ \E reply \in WalkReplies : WalkStep(reply)

SpecWalk == InitWalk /\ [][NextWalk]_vars

\* ------------------------------------------------ the archive on its own
MaxArchived == 2     \* archived repository lines of an archive file

Tok(c) == <<c>>
FillerLine == <<Tok("#")>>
ArchivedLines ==
  { <<Tok("h"), Tok("9"), Tok("3"), <<"1", "0">>, Tok("2")>>,
    <<Tok("h"), Tok("4"), Tok("x"), Tok("5"), Tok("1")>> }
LastLines ==
  { <<Tok("a"), Tok("b"), Tok("c"), Tok("d"), <<"7", ",">> >>,
    <<Tok("a"), Tok("b"), Tok("c"), Tok("d"), Tok("7")>>,
    <<Tok("a"), Tok("b"), Tok("c"), Tok("d"), <<"x", ",">> >>,
    <<Tok("a"), Tok("b"), Tok("c"), Tok("d")>> }

\* header, archived lines, trailer; and what is left of such a file when
\* lines are missing at its start
FullArchives ==
  { [i \in 1..ArchiveHeaderLen |-> FillerLine] \o body
      \o [i \in 1..(ArchiveTrailerLen - 1) |-> FillerLine] \o <<last>> :
    body \in UNION {[1..k -> ArchivedLines] : k \in 0..MaxArchived},
    last \in LastLines }

ArchiveFiles ==
  {Absent} \cup {FileOf(Drop(full, n)) : full \in FullArchives,
                                        n \in 0..(ArchiveHeaderLen + ArchiveTrailerLen)}

InitArchive ==
  /\ InitRun(Absent)
  /\ archive \in ArchiveFiles
  /\ archOut = NoCall

\* main's call of CacheManager.add_archive
CallAddArchive ==
  /\ ~archOut.called
  /\ archOut' = AddArchive(archive)
  /\ UNCHANGED <<files, userName, cfgUser, pc, edges, data, cacheComment, cached,
                 index, pageNo, acc, result, err, runs, file0, data0, rebuilt,
                 walked, walkRes, seen, repeat, prevResult, failedAt, archive>>

NextArchive == CallAddArchive

SpecArchive == InitArchive /\ [][NextArchive]_vars

\* ------------------------------------------------ one run on a found ledger
\* a CacheManager made for any account meets the ledger file some earlier run,
\* or a hand, left behind: no file, or a header that may be short of
\* comment_size lines followed by records of any repositories in any order

\* a stored record: the sentinel, or counts under a commit total
PriorRecords ==
  {Sentinel(Sha256(n)) : n \in Names} \cup
  {RecordLine(Sha256(n), t, 1, MaxLines, 1) : n \in Names, t \in 1..MaxTotal}

PriorHeaders == {UserHeader(HeaderSize), Take(UserHeader(HeaderSize), HeaderSize - 1)}

PriorFiles ==
  {Absent} \cup
  {FileOf(h \o r) : h \in PriorHeaders,
                    r \in UNION {[1..k -> PriorRecords] : k \in 0..NumRepos}}

InitLedger ==
  /\ cfgUser = "u1"
  /\ userName \in Users
  /\ \E f \in PriorFiles : files = [u \in Users |-> IF u = userName THEN f ELSE Absent]
  /\ pc = "idle"
  /\ edges = <<>>
  /\ data = <<>>
  /\ cacheComment = <<>>
  /\ cached = TRUE
  /\ index = 1
  /\ pageNo = 0
  /\ acc = <<0, 0, 0>>
  /\ result = NoResult
  /\ err = "none"
  /\ runs = MaxRuns - 1
  /\ file0 = Absent
  /\ data0 = <<>>
  /\ rebuilt = FALSE
  /\ walked = {}
  /\ walkRes = <<>>
  /\ seen = <<>>
  /\ repeat = FALSE
  /\ prevResult = NoResult
  /\ failedAt = 0
  /\ archive = Absent
  /\ archOut = NoCall

SpecLedger == InitLedger /\ [][Next]_vars

\* ------------------------------------------------ a save, write by write
\* "with open(file, 'w') as f: f.writelines(cache_comment); f.writelines(data)"
\* is the final save, the recovery save and, with the sentinels for data, the
\* rebuild.  The run stands before one of them: err tells the recovery save,
\* rebuilt the rebuild; file0 is what the file holds
SavedRecords(e) ==
  [i \in 1..Len(e) |->
     IF e[i].branch THEN FormatRecord(Sha256(e[i].name), e[i].total, <<MaxLines, 1, 1>>)
     ELSE Sentinel(Sha256(e[i].name))]

InitSave ==
  /\ cfgUser = "u1"
  /\ userName = cfgUser
  /\ \E f \in PriorFiles \ {Absent}, e \in EdgeLists, kind \in {"final", "rebuild", "recovery"} :
       /\ files = [u \in Users |-> IF u = userName THEN f ELSE Absent]
       /\ file0 = f
       /\ edges = e
       /\ rebuilt = (kind = "rebuild")
       /\ err = IF kind = "recovery" THEN "APIError" ELSE "none"
       /\ cacheComment = Take(f.lines, HeaderSize)
       /\ data = IF kind = "rebuild" THEN Drop(FlushCache(f, e, HeaderSize).lines,
                                                Len(cacheComment))
                 ELSE SavedRecords(e)
  /\ pc = "save"
  /\ cached = CachedFlag(rebuilt)
  /\ index = 1
  /\ pageNo = 0
  /\ acc = <<0, 0, 0>>
  /\ result = NoResult
  /\ runs = 1
  /\ data0 = data
  /\ walked = {}
  /\ walkRes = [i \in 1..Len(edges) |-> NoWalk]
  /\ seen = <<>>
  /\ repeat = FALSE
  /\ prevResult = NoResult
  /\ failedAt = 0
  /\ archive = Absent
  /\ archOut = NoCall

\* the file a save writes to
SaveTarget == IF err = "APIError" THEN ForceCloseTarget ELSE userName

SaveFrame ==
  UNCHANGED <<userName, cfgUser, edges, data, cacheComment, cached, index, pageNo,
              acc, result, err, runs, file0, data0, rebuilt, walked, walkRes, seen,
              repeat, prevResult, failedAt, archive, archOut>>

\* open(file, 'w'): the file is cut to nothing
OpenForWrite ==
  /\ pc = "save"
  /\ files' = [files EXCEPT ![SaveTarget] = FileOf(<<>>)]
  /\ pc' = "opened"
  /\ SaveFrame

\* f.writelines(cache_comment): the lines are in the buffer of f, and have
\* reached the file or not
WriteComment(flushed) ==
  /\ pc = "opened"
  /\ files' = [files EXCEPT
                 ![SaveTarget] = IF flushed THEN FileOf(cacheComment) ELSE FileOf(<<>>)]
  /\ pc' = "header"
  /\ SaveFrame

\* f.writelines(data) and the close that ends the with block
WriteData ==
  /\ pc = "header"
  /\ files' = [files EXCEPT ![SaveTarget] = SaveFile(cacheComment, data)]
  /\ pc' = "closed"
  /\ SaveFrame

NextSave ==
  \/ OpenForWrite
  \/ \E flushed \in BOOLEAN : WriteComment(flushed)
  \/ WriteData

SpecSave == InitSave /\ [][NextSave]_vars

\* ================================================================ claims
\* what the claims speak of
Ledger == files[userName]
RecordsOf(f) == Drop(f.lines, HeaderSize)
HashOf(i) == Sha256(edges[i].name)
LastBody == seen[Len(seen)]

\* the number of records the ledger held when the run started
RecordCount0 == IF file0.exists THEN Len(RecordsOf(file0)) ELSE 0

\* the record a completed walk of position i leaves
WalkedRecord(i) == RecordLine(HashOf(i), edges[i].total, walkRes[i].loc[3],
                              walkRes[i].loc[1], walkRes[i].loc[2])

\* sums over the commits of the tracked account on all received pages
MineAt(pages) ==
  {<<k, j>> \in (1..Len(pages)) \X (1..MaxPageLen + 1) :
     j <= Len(pages[k].edges) /\ pages[k].edges[j].author = "me"}

RECURSIVE SumOver(_, _, _)
SumOver(S, pages, fld) ==
  IF S = {} THEN 0
  ELSE LET x == CHOOSE y \in S : TRUE
           c == pages[x[1]].edges[x[2]]
       IN  (IF fld = "additions" THEN c.additions ELSE c.deletions)
           + SumOver(S \ {x}, pages, fld)

\* the sum of one column over a sequence of record lines, last line first
RECURSIVE ColumnSum(_, _)
ColumnSum(recs, fld) ==
  IF recs = <<>> THEN 0
  ELSE (IF fld = "add" THEN recs[Len(recs)].add ELSE recs[Len(recs)].del)
       + ColumnSum(SubSeq(recs, 1, Len(recs) - 1), fld)

C2_FreshNotWalked ==
  (pc # "idle" /\ ~rebuilt /\ file0.exists) =>
    \A i \in 1..Len(edges) : \A j \in 1..Len(RecordsOf(file0)) :
      ( /\ edges[i].branch
        /\ RecordsOf(file0)[j].hash = HashOf(i)
        /\ RecordsOf(file0)[j].total = edges[i].total ) => i \notin walked

\* C2 as claimed: the same of every run
C2_FreshNotWalked_AnyRun ==
  (pc # "idle" /\ file0.exists) =>
    \A i \in 1..Len(edges) : \A j \in 1..Len(RecordsOf(file0)) :
      ( /\ edges[i].branch
        /\ RecordsOf(file0)[j].hash = HashOf(i)
        /\ RecordsOf(file0)[j].total = edges[i].total ) => i \notin walked

\* C2 witness: a completed run without rebuild that walked one repository and
\* left alone another one whose stored total was the live one
C2_Witness ==
  /\ pc = "done" /\ ~rebuilt /\ Len(edges) = 2
  /\ walked = {1}
  /\ RecordsOf(file0)[2].hash = HashOf(2)
  /\ edges[2].branch
  /\ RecordsOf(file0)[2].total = edges[2].total
  /\ RecordsOf(file0)[2].mine > 0

\* C3: a second, unforced run on the same repository list leaves the file as the
\* first run left it, returns the first run's additions, deletions and net,
\* invokes no walk and returns wasFullyCached = true
C3_SecondRunIdempotent ==
  (pc = "done" /\ repeat) =>
    /\ Ledger = file0
    /\ result[1] = prevResult[1]
    /\ result[2] = prevResult[2]
    /\ result[3] = prevResult[3]
    /\ walked = {}
    /\ result[4] = TRUE

\* C4 (as amended): after a completed run that met a record count different
\* from len(R), the ledger holds len(R) records, record i with the hash of
\* R[i], each one the result of a walk of this run or the zero sentinel
C4_MismatchRebuilds ==
  (pc = "done" /\ RecordCount0 # Len(edges)) =>
    /\ Len(RecordsOf(Ledger)) = Len(edges)
    /\ \A i \in 1..Len(edges) :
         /\ RecordsOf(Ledger)[i].hash = HashOf(i)
         /\ RecordsOf(Ledger)[i] =
              IF walkRes[i].done THEN WalkedRecord(i) ELSE Sentinel(HashOf(i))

\* C4 as claimed: every record is the result of a walk of this run
C4_MismatchRebuilds_AllWalked ==
  (pc = "done" /\ RecordCount0 # Len(edges)) =>
    /\ Len(RecordsOf(Ledger)) = Len(edges)
    /\ \A i \in 1..Len(edges) :
         /\ RecordsOf(Ledger)[i].hash = HashOf(i)
         /\ walkRes[i].done
         /\ RecordsOf(Ledger)[i] = WalkedRecord(i)

\* C4 witness: the ledger held one record with counts; the run on two
\* repositories walked one and left the sentinel for the one without branch
C4_Witness ==
  /\ pc = "done" /\ Len(edges) = 2
  /\ RecordCount0 = 1
  /\ RecordsOf(file0)[1].mine > 0
  /\ RecordsOf(file0)[1].hash = HashOf(1)
  /\ walkRes[1].done /\ walkRes[1].loc[3] > 0
  /\ ~edges[2].branch

C6_EveryFailureSaves ==
  (pc = "raised" /\ err \in {"APIError", "RequestException"}) =>
    /\ Ledger.exists
    /\ \A i \in 1..(index - 1) :
         walkRes[i].done => RecordsOf(Ledger)[i] = WalkedRecord(i)

\* C8 (as amended): wasFullyCached is true exactly when the run did not
\* rebuild the ledger
C8_CachedIffNoRebuild ==
  pc = "done" => (result[4] <=> ~rebuilt)

\* C8 as claimed: true exactly when nothing was walked and nothing rebuilt
C8_CachedIffNoWalk ==
  pc = "done" => (result[4] <=> (walked = {} /\ ~rebuilt))

\* C8 witness: a run that walked a stale record of an intact ledger
C8_Witness ==
  /\ pc = "done" /\ ~rebuilt /\ walked # {}
  /\ \E i \in walked : walkRes[i].done /\ walkRes[i].loc[3] > 0
  /\ result[4] = TRUE

\* C9: a completed run returns the column sums of the additions and of the
\* deletions of the records just persisted, and their difference
C9_AggregateIsLedgerSum ==
  pc = "done" =>
    /\ result[1] = ColumnSum(RecordsOf(Ledger), "add")
    /\ result[2] = ColumnSum(RecordsOf(Ledger), "del")
    /\ result[3] = result[1] - result[2]

\* C9 witness: two records with counts, one walked in this run, one not
C9_Witness ==
  /\ pc = "done" /\ Len(edges) = 2
  /\ walked = {1} /\ walkRes[1].done
  /\ RecordsOf(Ledger)[1].add > 0 /\ RecordsOf(Ledger)[2].add > 0
  /\ RecordsOf(Ledger)[1].add # RecordsOf(Ledger)[2].add
  /\ result[2] > 0

\* C10: a completed walk returns the number of commits of the tracked account
\* over all pages and the sums of their additions and of their deletions
C10_WalkTotals ==
  (pc = "loop" /\ index > 1 /\ walkRes[index - 1].done) =>
    walkRes[index - 1].loc = << SumOver(MineAt(seen), seen, "additions"),
                                SumOver(MineAt(seen), seen, "deletions"),
                                Cardinality(MineAt(seen)) >>

\* C10 witness: two pages, both authors on the first, the account on both
C10_Witness ==
  /\ pc = "loop" /\ index > 1 /\ walkRes[index - 1].done
  /\ Len(seen) = 2
  /\ \E j, k \in 1..Len(seen[1].edges) :
       seen[1].edges[j].author = "me" /\ seen[1].edges[k].author = "other"
  /\ \E j \in 1..Len(seen[2].edges) : seen[2].edges[j].author = "me"
  /\ walkRes[index - 1].loc[1] # walkRes[index - 1].loc[2] + walkRes[index - 1].loc[3]

\* the trailer the claim calls malformed: no line at all, fewer than five
\* tokens on the last line, or a fifth token that is no number without its
\* last character
MalformedTrailer(f) ==
  \/ f.lines = <<>>
  \/ Len(f.lines[Len(f.lines)]) < 5
  \/ ~IsDigitStr(DropLast(f.lines[Len(f.lines)][5]))

\* C7: add_archive never raises, and returns the all-zero result for an absent
\* file and for every file with a malformed trailer
C7_ArchiveNeverRaises ==
  archOut.called =>
    /\ archOut.exc = "none"
    /\ (~archive.exists \/ MalformedTrailer(archive)) => archOut.value = ArchiveZero

\* the zero sentinel '<hash> 0 0 0 0' of position i
ZeroRecord(i) == RecordLine(HashOf(i), 0, 0, 0, 0)

\* record i as the loop met it carries the hash of R[i]
HashMatches0(i) == i <= Len(data0) /\ StoredHash(data0[i]) = HashOf(i)

\* record i as the loop met it is fresh / is stale
FreshAt0(i) == HashMatches0(i) /\ edges[i].branch /\ data0[i].total = edges[i].total
StaleAt0(i) == HashMatches0(i) /\ edges[i].branch /\ data0[i].total # edges[i].total

\* C11: a run that finds headerSize header lines and one record per repository,
\* every record fresh, walks nothing and writes back the lines it read
C11_RoundTrip ==
  ( /\ pc = "done" /\ ~rebuilt
    /\ file0.exists /\ Len(file0.lines) = HeaderSize + Len(edges)
    /\ \A i \in 1..Len(edges) : FreshAt0(i) ) =>
    /\ walked = {}
    /\ Ledger = file0

\* C11 witness: two fresh records with counts under a header the user wrote
C11_Witness ==
  /\ pc = "done" /\ ~rebuilt /\ Len(edges) = 2
  /\ file0.exists /\ Len(file0.lines) = HeaderSize + 2
  /\ Take(file0.lines, HeaderSize) = UserHeader(HeaderSize)
  /\ \A i \in 1..2 : FreshAt0(i) /\ data0[i].add > 0
  /\ Ledger = file0

\* C13: a position whose repository has no default branch and whose stored hash
\* matches gets the zero sentinel, is never walked, and is never the position
\* at which the run leaves with an exception
C13_NoBranchSentinel ==
  \A i \in 1..Len(edges) :
    (pc # "idle" /\ ~edges[i].branch /\ HashMatches0(i)) =>
      /\ i \notin walked
      /\ i < index => data[i] = ZeroRecord(i)
      /\ pc = "done" => RecordsOf(Ledger)[i] = ZeroRecord(i)
      /\ pc = "raised" => index # i

\* C13 witness: a completed run that found counts stored for a repository
\* without default branch, and walked the other repository
C13_Witness ==
  /\ pc = "done" /\ ~rebuilt /\ Len(edges) = 2
  /\ ~edges[1].branch /\ HashMatches0(1) /\ data0[1].add > 0
  /\ walked = {2}
  /\ RecordsOf(Ledger)[1] = ZeroRecord(1)

\* C14: a run that finds no ledger file stands before its loop with a file of
\* headerSize placeholder lines followed by one zero sentinel per repository,
\* has rebuilt when the list is not empty, and no exception has left it
C14_AbsentIsFirstRun ==
  (pc = "loop" /\ index = 1 /\ ~file0.exists) =>
    /\ err = "none"
    /\ cacheComment = [i \in 1..HeaderSize |-> DefaultComment]
    /\ data = [i \in 1..Len(edges) |-> ZeroRecord(i)]
    /\ Ledger = FileOf(cacheComment \o data)
    /\ edges # <<>> => rebuilt

\* C14 witness: no file, two repositories
C14_Witness ==
  /\ pc = "loop" /\ index = 1 /\ ~file0.exists
  /\ Len(edges) = 2 /\ rebuilt
  /\ Len(Ledger.lines) = HeaderSize + 2

\* C15: whatever the file held, a rebuild leaves headerSize header lines and one
\* zero sentinel per repository in list order, and the split that follows
\* yields len(R) records
C15_RebuildShape ==
  (pc = "loop" /\ index = 1 /\ rebuilt) =>
    /\ Len(Ledger.lines) = HeaderSize + Len(edges)
    /\ \A i \in 1..Len(edges) : Ledger.lines[HeaderSize + i] = ZeroRecord(i)
    /\ Len(data) = Len(edges)

C20_StaleReplaced ==
  /\ (pc = "walk" /\ seen = <<>>) => (pageNo = 0 /\ acc = <<0, 0, 0>>)
  /\ (pc = "loop" /\ index > 1 /\ StaleAt0(index - 1) /\ walkRes[index - 1].done) =>
       data[index - 1] =
         RecordLine(HashOf(index - 1), edges[index - 1].total,
                    Cardinality(MineAt(seen)),
                    SumOver(MineAt(seen), seen, "additions"),
                    SumOver(MineAt(seen), seen, "deletions"))
  /\ pc = "done" =>
       \A i \in 1..Len(edges) :
         (StaleAt0(i) /\ walkRes[i].done) => RecordsOf(Ledger)[i] = WalkedRecord(i)

\* C20 witness: a stale record with stored counts was walked over two pages and
\* now carries other counts
C20_Witness ==
  /\ pc = "loop" /\ index > 1 /\ ~rebuilt
  /\ StaleAt0(index - 1) /\ walkRes[index - 1].done
  /\ data0[index - 1].mine = 1
  /\ Len(seen) = 2
  /\ data[index - 1].mine = 2 /\ data[index - 1].add = 2 * MaxLines

\* the archived lines of a whole archive file, and what they hold
ArchivedOf(f) == SubSeq(f.lines, 8, Len(f.lines) - 3)
LineAdd(l) == IF l[4] = <<"1", "0">> THEN 10 ELSE 5
LineDel(l) == IF l[5] = <<"2">> THEN 2 ELSE 1
LineMine(l) == IF l[3] = <<"3">> THEN 3 ELSE 0

RECURSIVE ArchivedSum(_, _)
ArchivedSum(ls, fld) ==
  IF ls = <<>> THEN 0
  ELSE (CASE fld = "add" -> LineAdd(ls[1]) [] fld = "del" -> LineDel(ls[1])
          [] fld = "mine" -> LineMine(ls[1]))
       + ArchivedSum(Tail(ls), fld)

\* a 7-line header, k archived lines, a 3-line trailer ending in the token '7,'
WholeArchive ==
  /\ archive.exists
  /\ archive.lines \in FullArchives
  /\ Len(archive.lines[Len(archive.lines)]) = 5
  /\ archive.lines[Len(archive.lines)][5] = <<"7", ",">>

\* C12 (as amended): for a whole archive add_archive returns the sums of the
\* additions and of the deletions of the k lines, their difference, the sum of
\* the lines' numeric my-commits fields plus the number read from the last
\* line's 5th token without its last character, and k
C12_ArchiveMerge ==
  (archOut.called /\ WholeArchive) =>
    archOut = Returned(<< ArchivedSum(ArchivedOf(archive), "add"),
                          ArchivedSum(ArchivedOf(archive), "del"),
                          ArchivedSum(ArchivedOf(archive), "add")
                            - ArchivedSum(ArchivedOf(archive), "del"),
                          ArchivedSum(ArchivedOf(archive), "mine") + 7,
                          Len(archive.lines) - 10 >>)

\* C12 as claimed: the fourth element is the trailer's scalar
C12_ArchiveMerge_ScalarOnly ==
  (archOut.called /\ WholeArchive) =>
    archOut = Returned(<< ArchivedSum(ArchivedOf(archive), "add"),
                          ArchivedSum(ArchivedOf(archive), "del"),
                          ArchivedSum(ArchivedOf(archive), "add")
                            - ArchivedSum(ArchivedOf(archive), "del"),
                          7,
                          Len(archive.lines) - 10 >>)

\* C12 witness: the lines add=10,del=2 (3 commits) and add=5,del=1 (commits not
\* a number) under the trailer token '7,' give (15, 3, 12, 10, 2)
C12_Witness ==
  /\ archOut.called /\ WholeArchive
  /\ Len(archive.lines) = 12
  /\ archive.lines[8] # archive.lines[9]
  /\ archOut.value = <<15, 3, 12, 10, 2>>

\* C16: at every point of a save the file holds all of what it held before
\* the save or all of the header and records being saved
C16_SaveAtomic ==
  pc \in {"save", "opened", "header", "closed"} =>
    files[SaveTarget] \in {file0, FileOf(cacheComment \o data)}

\* C18: the step in which a request of a walk fails writes the recovery save,
\* issues no request for a later position and returns nothing; after it the
\* run takes no further step (no retry, no page, no walk, no final save): the
\* next step is the start of another run
C18_FailureAborts ==
  [][ /\ (pc = "walk" /\ pc' = "raised") =>
           /\ files'[userName] = FileOf(cacheComment \o data)
           /\ walked' \subseteq 1..index
           /\ result' = NoResult
      /\ (pc = "raised" /\ err \in {"APIError", "RequestException"}) =>
           (pc' = "loop" /\ runs' = runs + 1) ]_vars

\* C19: the unforced run on the same list that follows a run aborted at
\* position k through the recovery save rebuilds nothing, walks no position
\* before k and only positions whose stored total differs from the live one,
\* and when it completes every record of a repository with a default branch
\* carries the live total
C19_NextRunAfterFailure ==
  failedAt > 0 =>
    /\ ~rebuilt
    /\ \A i \in walked :
         i >= failedAt /\ RecordsOf(file0)[i].total # edges[i].total
    /\ pc = "done" =>
         \A i \in 1..Len(edges) :
           edges[i].branch => RecordsOf(Ledger)[i].total = edges[i].total

\* C21: a position whose stored hash is not the hash of its repository is
\* never walked, and its record stays the record that was read, in data and in
\* the file of the completed run, whatever its total and the live total are
C21_MismatchUntouched ==
  \A i \in 1..Len(edges) :
    (pc # "idle" /\ i <= Len(data0) /\ StoredHash(data0[i]) # HashOf(i)) =>
      /\ i \notin walked
      /\ data[i] = data0[i]
      /\ ~rebuilt => data0[i] = RecordsOf(file0)[i]
      /\ pc = "done" => RecordsOf(Ledger)[i] = data0[i]

\* C21 witness: a completed run met the counts of another repository at
\* position 1 under a total that is not the live one, and walked position 2
C21_Witness ==
  /\ pc = "done" /\ ~rebuilt /\ Len(edges) = 2
  /\ StoredHash(data0[1]) # HashOf(1)
  /\ edges[1].branch /\ data0[1].total # edges[1].total /\ data0[1].add > 0
  /\ walked = {2} /\ walkRes[2].done
  /\ RecordsOf(Ledger)[1] = RecordsOf(file0)[1]

\* the first headerSize lines of a file
HeaderOf(f) == Take(f.lines, HeaderSize)

\* C22: whenever a run on an existing file has written it (the rebuild, the
\* recovery save, the final save), the first headerSize lines of the file are
\* the first headerSize lines it had before the run
C22_HeaderVerbatim ==
  (pc \in {"loop", "walk", "done", "raised"} /\ file0.exists) =>
    HeaderOf(Ledger) = HeaderOf(file0)

\* C23: after a completed run every record with the hash of its repository
\* stores the live commit total where the repository has a default branch,
\* and 0 where it has none
C23_StoredTotalIsLive ==
  pc = "done" =>
    \A i \in 1..Len(edges) :
      RecordsOf(Ledger)[i].hash = HashOf(i) =>
        RecordsOf(Ledger)[i].total = IF edges[i].branch THEN edges[i].total ELSE 0

\* C24: a position the loop has passed and for which a request was issued
\* carries the result of its walk; the zero sentinel is written only for a
\* repository without default branch
C24_SentinelOnlyWithoutBranch ==
  \A i \in 1..Len(edges) :
    (pc # "idle" /\ i < index /\ HashMatches0(i)) =>
      /\ i \in walked => (walkRes[i].done /\ data[i] = WalkedRecord(i))
      /\ data[i] = ZeroRecord(i) => ~edges[i].branch

====
